---- MODULE Spec2Model ----
(***************************************************************************)
(* TagRss: tag rules (src/src/tag.rs), their application to feed items     *)
(* (src/src/feed.rs) and folder predicate trees loaded from a YAML         *)
(* document (src/src/folder.rs).                                           *)
(*                                                                         *)
(* Option<T> is a sequence of length at most one: None is <<>> and Some(v) *)
(* is <<v>>.  A String is a sequence of one-character strings.  A          *)
(* timestamp is a number of seconds.                                       *)
(***************************************************************************)
EXTENDS Integers, Sequences, FiniteSets, TLC

VARIABLES
    rules,      \* TagManager.rules: Vec<TagRuleEnum>
    item,       \* the FeedItem handed to find_tag / apply_rules
    before,     \* the FeedItem as it was when the last apply_rules was entered
    ret,        \* what the last apply_rules returned
    op,         \* the last operation that ran
    streak,     \* how many apply_rules calls ran in a row, up to 2
    probe,      \* the rule of the last direct find_tag call and its result
    today,      \* the date Utc::now() gives, as a day number
    expr,       \* the YamlRuleItem given to parse_yaml_rule_item
    parsed,     \* what parse_yaml_rule_item returned for expr, once called
    eval_item,  \* the FeedItem of the last Rules::evaluate call
    eval_result, \* what the last Rules::evaluate call returned
    config,     \* the file at FolderManager.config_path: None when it does not exist
    folders,    \* FolderManager.folders: Vec<Folder>
    fop,        \* the last folder operation that ran
    reload_ret, \* what the last reload_config returned
    class_item, \* the FeedItem of the last classify call
    class_result, \* the folder names the last classify call returned
    rule_file,  \* the file at TagManager.file_path: None when it does not exist
    saved,      \* the rules save_to_file last wrote, while the file is as written
    store,      \* the items table of the database, for the feed updated
    store_before, \* the items table when the last update_feed was entered
    fetched,    \* what the fetch and parse of the last update_feed gave
    stamped,    \* whether the last update_feed updated the feed's timestamp
    added,      \* the rules the add commands of the runs so far added, in order
    feed_table, \* the feeds table: the feed ids in the order get_feeds returns them
    attempts    \* the update_feed calls of the last update_feeds, with their results

tagVars == <<rules, item, before, ret, op, streak, probe>>

treeVars == <<expr, parsed, eval_item, eval_result>>

folderVars == <<config, folders, fop, reload_ret>>

classVars == <<class_item, class_result>>

persistVars == <<rule_file, saved>>

feedVars == <<store, store_before, fetched, stamped>>

runVars == <<added>>

feedsVars == <<feed_table, attempts>>

restVars == <<classVars, persistVars, feedVars, runVars, feedsVars>>

vars == <<tagVars, today, treeVars, folderVars, restVars>>

\* ---------------------------------------------------------------- bounds

MaxRules  == 2      \* longest rule list
MaxTag    == 2      \* tag ids are 1..MaxTag
MaxTime   == 3      \* timestamps are 0..MaxTime
MaxStrLen == 2      \* longest title, content or pattern
MaxId     == 2      \* item ids and feed ids are 1..MaxId
MaxDay    == 1      \* dates are the days 0..MaxDay
DayLen    == 2      \* seconds in a day: 00:00:00 is second 0, 23:59:59 second DayLen - 1
Ticks     == 2      \* instants of a DateTime<Utc> in one second; a timestamp counts them
MaxNodes  == 4      \* most nodes of a rule expression
MaxEntries == 2      \* most entries in a fetched feed
MaxRuns   == 2      \* most runs of an add command
MaxFeeds  == 2      \* feed ids are 1..MaxFeeds
MaxFolders == 2     \* most folder definitions of a document

\* ---------------------------------------------------------------- values

None == <<>>

Some(v) == <<v>>

Range(s) == {s[i] : i \in 1..Len(s)}

Chars == {"a", "A", "b"}

RECURSIVE StringsUpTo(_)
StringsUpTo(n) ==
    IF n = 0 THEN {<<>>}
    ELSE LET shorter == StringsUpTo(n - 1)
         IN  shorter \cup {Append(s, c) : s \in {t \in shorter : Len(t) = n - 1}, c \in Chars}

Strings == StringsUpTo(MaxStrLen)

Times == 0..MaxTime

OptTimes == {None} \cup {Some(t) : t \in Times}

TagIds == 1..MaxTag

Ids == 1..MaxId

\* The name a rule carries beside its tag id: "t", "tt", ...
TagName(id) == [i \in 1..id |-> "t"]

\* struct Tag { id, name }
Tag(id, name) == [id |-> id, name |-> name]

\* ---------------------------------------------------------------- rules

TimeRange(name, tag_id, start, end) ==
    [type |-> "TimeRange", name |-> name, tag_id |-> tag_id, start |-> start, end |-> end]

Contains(name, tag_id, target_string, case_sensitive) ==
    [type |-> "Contains", name |-> name, tag_id |-> tag_id,
     target_string |-> target_string, case_sensitive |-> case_sensitive]

FromFeed(name, tag_id, feed_id) ==
    [type |-> "FromFeed", name |-> name, tag_id |-> tag_id, feed_id |-> feed_id]

FeedItem(id, feed_id, tags, title, content, published_at) ==
    [id |-> id, feed_id |-> feed_id, tags |-> tags, title |-> title,
     content |-> content, published_at |-> published_at]

\* char::to_lowercase on the alphabet
LowerChar(c) == CASE c = "A" -> "a" [] c = "B" -> "b" [] OTHER -> c

\* str::to_lowercase
to_lowercase(s) == [i \in 1..Len(s) |-> LowerChar(s[i])]

\* str::contains(&pattern): pattern is a contiguous part of s
str_contains(s, pattern) ==
    \E i \in 0..(Len(s) - Len(pattern)) : SubSeq(s, i + 1, i + Len(pattern)) = pattern

\* TimeRange::find_tag with the upper bound exclusive
TimeRange_find_tag_exclusive_end(self, feed) ==
    IF feed.published_at = None THEN None
    ELSE IF self.start = None /\ self.end = None THEN None
    ELSE IF self.end = None THEN
        IF feed.published_at[1] >= self.start[1]
        THEN Some(Tag(self.tag_id, self.name)) ELSE None
    ELSE IF self.start = None THEN
        IF feed.published_at[1] < self.end[1]
        THEN Some(Tag(self.tag_id, self.name)) ELSE None
    ELSE
        IF feed.published_at[1] >= self.start[1] /\ feed.published_at[1] < self.end[1]
        THEN Some(Tag(self.tag_id, self.name)) ELSE None

\* impl TagRule for TimeRange: the match on (start, end, published_at), arm by arm
TimeRange_find_tag(self, feed) ==
    IF feed.published_at = None THEN None
    ELSE IF self.start = None /\ self.end = None THEN None
    ELSE IF self.end = None THEN
        IF feed.published_at[1] >= self.start[1]
        THEN Some(Tag(self.tag_id, self.name)) ELSE None
    ELSE IF self.start = None THEN
        IF feed.published_at[1] <= self.end[1]
        THEN Some(Tag(self.tag_id, self.name)) ELSE None
    ELSE
        IF feed.published_at[1] >= self.start[1] /\ feed.published_at[1] <= self.end[1]
        THEN Some(Tag(self.tag_id, self.name)) ELSE None

\* Contains::find_tag that lowers the text and leaves the pattern as written
Contains_find_tag_pattern_as_written(self, feed) ==
    LET title  == IF self.case_sensitive THEN feed.title ELSE to_lowercase(feed.title)
        target == self.target_string
    IN  IF str_contains(title, target) THEN Some(Tag(self.tag_id, self.name))
        ELSE IF feed.content # None
                /\ LET content == IF self.case_sensitive THEN feed.content[1]
                                  ELSE to_lowercase(feed.content[1])
                   IN  str_contains(content, target)
             THEN Some(Tag(self.tag_id, self.name))
             ELSE None

\* impl TagRule for Contains
Contains_find_tag(self, feed) ==
    LET title  == IF self.case_sensitive THEN feed.title ELSE to_lowercase(feed.title)
        target == IF self.case_sensitive THEN self.target_string
                  ELSE to_lowercase(self.target_string)
    IN  IF str_contains(title, target) THEN Some(Tag(self.tag_id, self.name))
        ELSE IF feed.content # None
                /\ LET content == IF self.case_sensitive THEN feed.content[1]
                                  ELSE to_lowercase(feed.content[1])
                   IN  str_contains(content, target)
             THEN Some(Tag(self.tag_id, self.name))
             ELSE None

\* impl TagRule for FromFeed: compares the item's own id with the rule's feed id
FromFeed_find_tag(self, feed) ==
    IF feed.id = self.feed_id THEN Some(Tag(self.tag_id, self.name)) ELSE None

\* TagRuleEnum::find_tag
TagRuleEnum_find_tag(self, feed) ==
    CASE self.type = "TimeRange" -> TimeRange_find_tag(self, feed)
      [] self.type = "Contains"  -> Contains_find_tag(self, feed)
      [] self.type = "FromFeed"  -> FromFeed_find_tag(self, feed)

\* ---------------------------------------------------------------- TagManager

\* Result<()>: Ok(()) carries no value; Ok(v) would carry v
OkUnit == <<"Ok">>

OkVal(v) == <<"Ok", v>>

\* the loop body without the `contains` test: every match is pushed
apply_one_always_push(rule, feed_item) ==
    LET found == TagRuleEnum_find_tag(rule, feed_item)
    IN  IF found # None
        THEN [feed_item EXCEPT !.tags = Append(@, found[1].id)]
        ELSE feed_item

\* the loop body assigning the tag list instead of pushing to it
apply_one_overwrite(rule, feed_item) ==
    LET found == TagRuleEnum_find_tag(rule, feed_item)
    IN  IF found # None /\ found[1].id \notin Range(feed_item.tags)
        THEN [feed_item EXCEPT !.tags = <<found[1].id>>]
        ELSE feed_item

\* the loop body pushing the first match only
apply_one_first_only(rule, feed_item) ==
    LET found == TagRuleEnum_find_tag(rule, feed_item)
    IN  IF found # None /\ feed_item.tags = <<>>
        THEN [feed_item EXCEPT !.tags = Append(@, found[1].id)]
        ELSE feed_item

\* the body of the loop of apply_rules for one rule
apply_one(rule, feed_item) ==
    LET found == TagRuleEnum_find_tag(rule, feed_item)
    IN  IF found # None /\ found[1].id \notin Range(feed_item.tags)
        THEN [feed_item EXCEPT !.tags = Append(@, found[1].id)]
        ELSE feed_item

\* the loop of apply_rules leaving at the first rule that finds a tag
RECURSIVE apply_from_break(_, _, _)
apply_from_break(rs, i, feed_item) ==
    IF i > Len(rs) THEN feed_item
    ELSE IF TagRuleEnum_find_tag(rs[i], feed_item) # None
         THEN apply_one(rs[i], feed_item)
         ELSE apply_from_break(rs, i + 1, feed_item)

\* the loop of apply_rules from rule i on
RECURSIVE apply_from(_, _, _)
apply_from(rs, i, feed_item) ==
    IF i > Len(rs) THEN feed_item
    ELSE apply_from(rs, i + 1, apply_one(rs[i], feed_item))

\* TagManager::apply_rules: the item after the call
apply_rules_item(rs, feed_item) == apply_from(rs, 1, feed_item)

\* TagManager::apply_rules: the value returned
apply_rules_ret(rs, feed_item) == OkUnit

\* ---------------------------------------------------------------- folder.rs: values

\* Result<T>
Ok(v) == <<"Ok", v>>

Err(e) == <<"Err", e>>

IsOk(r) == r[1] = "Ok"

\* enum Rules
LEAF(reverse, rule_type) == [node |-> "LEAF", reverse |-> reverse, rule_type |-> rule_type]

NODE(rs, is_and) == [node |-> "NODE", rules |-> rs, is_and |-> is_and]

\* struct Folder
Folder(name, root) == [name |-> name, root |-> root]

\* enum YamlRuleItem (untagged: the variant is the key the entry carries)
YTag(tag) == [tag |-> tag]

YTime(time) == [time |-> time]

YContains(contains) == [contains |-> contains]

YNot(e) == [not |-> e]

YAnd(es) == [and |-> es]

YOr(es) == [or |-> es]

\* the variant of a YamlRuleItem
Is(rule_item, key) == key \in DOMAIN rule_item

\* struct YamlFolder
YamlFolder(name, rule) == [name |-> name, rule |-> rule]

\* The text of a time rule, as a sequence of tokens: the separator '~', a
\* blank, a date YYYY-MM-DD (day n), one of the words yesterday, today and
\* tomorrow (day offset n) in lower case ("kw") or capitals ("KW"), or any
\* other word.
Tok(t, n) == [t |-> t, n |-> n]

Sep == Tok("~", 0)

Sp == Tok(" ", 0)

DateTok(d) == Tok("date", d)

Junk == Tok("junk", 0)

\* ---------------------------------------------------------------- folder.rs: parse_time_range

\* str::split('~')
RECURSIVE split(_)
split(str) ==
    IF \A i \in 1..Len(str) : str[i] # Sep THEN <<str>>
    ELSE LET i == CHOOSE j \in 1..Len(str) :
                      str[j] = Sep /\ \A h \in 1..(j - 1) : str[h] # Sep
         IN  <<SubSeq(str, 1, i - 1)>> \o split(SubSeq(str, i + 1, Len(str)))

\* str::trim
RECURSIVE trim(_)
trim(str) ==
    IF str # <<>> /\ str[1] = Sp THEN trim(Tail(str))
    ELSE IF str # <<>> /\ str[Len(str)] = Sp THEN trim(SubSeq(str, 1, Len(str) - 1))
    ELSE str

\* date.and_hms_opt(0, 0, 0)
StartOfDay(d) == d * DayLen * Ticks

\* date.and_hms_opt(23, 59, 59)
EndOfDay(d) == d * DayLen * Ticks + (DayLen - 1) * Ticks

\* end_date that puts a date at 00:00:00, as the start does
parse_end_date_at_midnight(end_str, now) ==
    IF end_str = <<>> THEN Ok(None)
    ELSE IF Len(end_str) = 1 /\ end_str[1].t \in {"kw", "KW"}
         THEN Ok(Some(StartOfDay(now + end_str[1].n)))
    ELSE IF Len(end_str) = 1 /\ end_str[1].t = "date"
         THEN Ok(Some(StartOfDay(end_str[1].n)))
    ELSE Err("Failed to parse end date")

\* start_date: empty, a keyword (eq_ignore_ascii_case) or a date
\* (NaiveDate::parse_from_str), at 00:00:00
parse_start_date(start_str, now) ==
    IF start_str = <<>> THEN Ok(None)
    ELSE IF Len(start_str) = 1 /\ start_str[1].t \in {"kw", "KW"}
         THEN Ok(Some(StartOfDay(now + start_str[1].n)))
    ELSE IF Len(start_str) = 1 /\ start_str[1].t = "date"
         THEN Ok(Some(StartOfDay(start_str[1].n)))
    ELSE Err("Failed to parse start date")

\* end_date: the same, at 23:59:59
parse_end_date(end_str, now) ==
    IF end_str = <<>> THEN Ok(None)
    ELSE IF Len(end_str) = 1 /\ end_str[1].t \in {"kw", "KW"}
         THEN Ok(Some(EndOfDay(now + end_str[1].n)))
    ELSE IF Len(end_str) = 1 /\ end_str[1].t = "date"
         THEN Ok(Some(EndOfDay(end_str[1].n)))
    ELSE Err("Failed to parse end date")

\* FolderManager::parse_time_range
parse_time_range(time_str, now) ==
    LET parts == split(time_str)
    IN  IF Len(parts) # 2 THEN Err("Invalid time range format")
        ELSE LET start_date == parse_start_date(trim(parts[1]), now)
                 end_date   == parse_end_date(trim(parts[2]), now)
             IN  IF ~IsOk(start_date) THEN start_date
                 ELSE IF ~IsOk(end_date) THEN end_date
                 ELSE Ok(<<start_date[2], end_date[2]>>)

\* ---------------------------------------------------------------- folder.rs: parse_yaml_rule_item

\* Tag::new(name): the tag of a folder leaf has a name only; the id that
\* tag.rs keeps beside it is a fixed 1, which no folder operation reads.
Tag_new(name) == Tag(1, name)

\* TimeRange { tag, start, end }
TimeRange_tagged(tag, start, end) == TimeRange(tag.name, tag.id, start, end)

\* Contains { tag, target_regex }: the patterns here are made of letters only,
\* for which a regex search is a case-sensitive substring search.
Contains_regex(tag, target_regex) == Contains(tag.name, tag.id, target_regex, TRUE)

\* the Not arm: a leaf child becomes a leaf with reverse set; any other child
\* is an error
parse_not(child_rule) ==
    IF ~IsOk(child_rule) THEN child_rule
    ELSE IF child_rule[2].node = "LEAF"
         THEN Ok(LEAF(TRUE, child_rule[2].rule_type))
         ELSE Err("NOT operation currently only supports simple rules")

RECURSIVE parse_yaml_rule_item(_, _)
\* the And / Or arms' loop: children parsed in order, the first error returned
RECURSIVE parse_children(_, _, _, _)
parse_children(items, i, child_rules, now) ==
    IF i > Len(items) THEN Ok(child_rules)
    ELSE LET r == parse_yaml_rule_item(items[i], now)
         IN  IF ~IsOk(r) THEN r
             ELSE parse_children(items, i + 1, Append(child_rules, r[2]), now)

\* FolderManager::parse_yaml_rule_item
parse_yaml_rule_item(rule_item, now) ==
    CASE Is(rule_item, "tag") ->
            Ok(LEAF(FALSE, Contains_regex(Tag_new(rule_item.tag), rule_item.tag)))
      [] Is(rule_item, "time") ->
            LET range == parse_time_range(rule_item.time, now)
            IN  IF ~IsOk(range) THEN range
                ELSE Ok(LEAF(FALSE, TimeRange_tagged(Tag_new(<<"time_range">>),
                                                     range[2][1], range[2][2])))
      [] Is(rule_item, "contains") ->
            Ok(LEAF(FALSE, Contains_regex(Tag_new(<<"content_match">>), rule_item.contains)))
      [] Is(rule_item, "not") ->
            parse_not(parse_yaml_rule_item(rule_item.not, now))
      [] Is(rule_item, "and") ->
            LET child_rules == parse_children(rule_item.and, 1, <<>>, now)
            IN  IF ~IsOk(child_rules) THEN child_rules
                ELSE Ok(NODE(child_rules[2], TRUE))
      [] Is(rule_item, "or") ->
            LET child_rules == parse_children(rule_item.or, 1, <<>>, now)
            IN  IF ~IsOk(child_rules) THEN child_rules
                ELSE Ok(NODE(child_rules[2], FALSE))

\* ---------------------------------------------------------------- folder.rs: evaluate

\* a leaf evaluated without its reverse flag
RulesLeaf_evaluate_ignores_reverse(self, feed) ==
    TagRuleEnum_find_tag(self.rule_type, feed) # None

\* impl Rule for RulesLeaf
RulesLeaf_evaluate(self, feed) ==
    LET result == TagRuleEnum_find_tag(self.rule_type, feed) # None
    IN  IF self.reverse THEN ~result ELSE result

RECURSIVE Rules_evaluate(_, _)
\* Iterator::all from child i on: false at the first child that is false
RECURSIVE iter_all(_, _, _)
iter_all(rs, i, feed) ==
    IF i > Len(rs) THEN TRUE
    ELSE IF ~Rules_evaluate(rs[i], feed) THEN FALSE
    ELSE iter_all(rs, i + 1, feed)

\* Iterator::any from child i on: true at the first child that is true
RECURSIVE iter_any(_, _, _)
iter_any(rs, i, feed) ==
    IF i > Len(rs) THEN FALSE
    ELSE IF Rules_evaluate(rs[i], feed) THEN TRUE
    ELSE iter_any(rs, i + 1, feed)

\* RulesNode::evaluate that takes every node for an OR
RulesNode_evaluate_any(self, feed) == iter_any(self.rules, 1, feed)

\* impl Rule for RulesNode
RulesNode_evaluate(self, feed) ==
    IF self.is_and THEN iter_all(self.rules, 1, feed)
    ELSE iter_any(self.rules, 1, feed)

\* Rules::evaluate
Rules_evaluate(self, feed) ==
    CASE self.node = "NODE" -> RulesNode_evaluate(self, feed)
      [] self.node = "LEAF" -> RulesLeaf_evaluate(self, feed)

\* ---------------------------------------------------------------- folder.rs: FolderManager

\* struct YamlConfig
YamlConfig(yaml_folders) == [folders |-> yaml_folders]

\* a file that cannot be read, and one whose text serde_yaml rejects
Unreadable == [io_error |-> TRUE]

NotYaml == [yaml_error |-> TRUE]

\* FolderManager::convert_yaml_folder_to_folder
convert_yaml_folder_to_folder(yaml_folder, now) ==
    LET rs == parse_yaml_rule_item(yaml_folder.rule, now)
    IN  IF ~IsOk(rs) THEN rs ELSE Ok(Folder(yaml_folder.name, rs[2]))

\* the loop of load_yaml_config ending at the first definition that fails
RECURSIVE load_folders_until_error(_, _, _, _)
load_folders_until_error(yaml_folders, i, loaded, now) ==
    IF i > Len(yaml_folders) THEN loaded
    ELSE LET r == convert_yaml_folder_to_folder(yaml_folders[i], now)
         IN  IF IsOk(r)
             THEN load_folders_until_error(yaml_folders, i + 1, Append(loaded, r[2]), now)
             ELSE loaded

\* the loop of load_yaml_config from definition i on: a converted folder is
\* pushed, a failed conversion is logged and passed over
RECURSIVE load_folders(_, _, _, _)
load_folders(yaml_folders, i, loaded, now) ==
    IF i > Len(yaml_folders) THEN loaded
    ELSE LET r == convert_yaml_folder_to_folder(yaml_folders[i], now)
         IN  load_folders(yaml_folders, i + 1,
                          IF IsOk(r) THEN Append(loaded, r[2]) ELSE loaded, now)

\* FolderManager::load_yaml_config
load_yaml_config(file, now) ==
    IF file = None THEN Err("YAML file not found")
    ELSE IF "io_error" \in DOMAIN file[1] THEN Err("io error")
    ELSE IF "yaml_error" \in DOMAIN file[1] THEN Err("yaml error")
    ELSE Ok(load_folders(file[1].folders, 1, <<>>, now))

\* FolderManager::new: the folders the manager starts with
new_folders(file, now) ==
    IF file # None
    THEN LET r == load_yaml_config(file, now)
         IN  IF IsOk(r) THEN r[2] ELSE <<>>
    ELSE <<>>

\* classify from folder i on: the names collected so far, and the name of
\* every later folder whose root evaluates true
RECURSIVE classify_from(_, _, _, _)
classify_from(fs, i, names, feed) ==
    IF i > Len(fs) THEN names
    ELSE classify_from(fs, i + 1,
                       IF Rules_evaluate(fs[i].root, feed)
                       THEN names \cup {fs[i].name} ELSE names,
                       feed)

\* FolderCatalog.classify(item) -> set of folder name
classify_names(fs, feed) == classify_from(fs, 1, {}, feed)

\* ---------------------------------------------------------------- tag.rs: the rule file

\* serde_json values; an object is its members in the order written
JNull == [j |-> "null"]

JBool(b) == [j |-> "bool", b |-> b]

JNum(n) == [j |-> "num", n |-> n]

JStr(s) == [j |-> "str", s |-> s]

JArr(items) == [j |-> "arr", items |-> items]

JObj(fields) == [j |-> "obj", fields |-> fields]

\* the member of an object under a key, if there is one
json_get(obj, key) ==
    LET idx == {i \in 1..Len(obj.fields) : obj.fields[i][1] = key}
    IN  IF idx = {} THEN None
        ELSE Some(obj.fields[CHOOSE i \in idx : \A h \in idx : i <= h][2])

\* chrono's Serialize for DateTime<Utc>: the time as RFC 3339 text
to_rfc3339(t) == <<"T", ToString(t)>>

\* chrono's Deserialize for DateTime<Utc>
parse_from_rfc3339(s) ==
    IF Len(s) = 2 /\ s[1] = "T" /\ \E t \in Times : ToString(t) = s[2]
    THEN Ok(CHOOSE t \in Times : ToString(t) = s[2])
    ELSE Err("invalid date")

\* Serialize for Option<DateTime<Utc>>
Option_DateTime_serialize(o) == IF o = None THEN JNull ELSE JStr(to_rfc3339(o[1]))

\* #[derive(Serialize)] of the variant's struct: its fields in their order
struct_fields(rule) ==
        (CASE rule.type = "TimeRange" ->
                <<<<"name", JStr(rule.name)>>, <<"tag_id", JNum(rule.tag_id)>>,
                  <<"start", Option_DateTime_serialize(rule.start)>>,
                  <<"end", Option_DateTime_serialize(rule.end)>>>>
           [] rule.type = "Contains" ->
                <<<<"name", JStr(rule.name)>>, <<"tag_id", JNum(rule.tag_id)>>,
                  <<"target_string", JStr(rule.target_string)>>,
                  <<"case_sensitive", JBool(rule.case_sensitive)>>>>
           [] rule.type = "FromFeed" ->
                <<<<"name", JStr(rule.name)>>, <<"tag_id", JNum(rule.tag_id)>>,
                  <<"feed_id", JNum(rule.feed_id)>>>>)

\* a rule written as its struct alone, the variant not named
TagRuleEnum_serialize_untagged(rule) == JObj(struct_fields(rule))

\* #[derive(Serialize)] #[serde(tag = "type")] enum TagRuleEnum: the variant
\* name under "type", then the fields of the variant's struct
TagRuleEnum_serialize(rule) ==
    JObj(<<<<"type", JStr(<<rule.type>>)>>>> \o struct_fields(rule))

\* #[derive(Serialize)] struct TagManager
TagManager_serialize(rs, file_path) ==
    JObj(<<<<"rules", JArr([i \in 1..Len(rs) |-> TagRuleEnum_serialize(rs[i])])>>,
           <<"file_path", JStr(file_path)>>>>)

\* serde_json::to_string: the text of a value
to_string(value) == [json |-> value]

\* text that is not JSON
NotJson == [garbage |-> TRUE]

\* a required member of the given JSON type
Has(obj, key, type) ==
    /\ json_get(obj, key) # None
    /\ json_get(obj, key)[1].j = type

\* Deserialize for Option<DateTime<Utc>>: absent or null is None
Option_DateTime_deserialize(o) ==
    IF o = None \/ o[1] = JNull THEN Ok(None)
    ELSE IF o[1].j # "str" THEN Err("invalid type")
    ELSE LET t == parse_from_rfc3339(o[1].s)
         IN  IF IsOk(t) THEN Ok(Some(t[2])) ELSE t

\* #[derive(Deserialize)] struct TimeRange
TimeRange_deserialize(v) ==
    LET start == Option_DateTime_deserialize(json_get(v, "start"))
        end == Option_DateTime_deserialize(json_get(v, "end"))
    IN  IF ~Has(v, "name", "str") \/ ~Has(v, "tag_id", "num") THEN Err("missing field")
        ELSE IF ~IsOk(start) THEN start
        ELSE IF ~IsOk(end) THEN end
        ELSE Ok(TimeRange(json_get(v, "name")[1].s, json_get(v, "tag_id")[1].n,
                          start[2], end[2]))

\* #[derive(Deserialize)] struct Contains
Contains_deserialize(v) ==
    IF \/ ~Has(v, "name", "str") \/ ~Has(v, "tag_id", "num")
       \/ ~Has(v, "target_string", "str") \/ ~Has(v, "case_sensitive", "bool")
    THEN Err("missing field")
    ELSE Ok(Contains(json_get(v, "name")[1].s, json_get(v, "tag_id")[1].n,
                     json_get(v, "target_string")[1].s,
                     json_get(v, "case_sensitive")[1].b))

\* #[derive(Deserialize)] struct FromFeed
FromFeed_deserialize(v) ==
    IF ~Has(v, "name", "str") \/ ~Has(v, "tag_id", "num") \/ ~Has(v, "feed_id", "num")
    THEN Err("missing field")
    ELSE Ok(FromFeed(json_get(v, "name")[1].s, json_get(v, "tag_id")[1].n,
                     json_get(v, "feed_id")[1].n))

\* #[derive(Deserialize)] #[serde(tag = "type")] enum TagRuleEnum
TagRuleEnum_deserialize(v) ==
    IF v.j # "obj" THEN Err("invalid type")
    ELSE IF ~Has(v, "type", "str") THEN Err("missing field type")
    ELSE LET variant == json_get(v, "type")[1].s
         IN  CASE variant = <<"TimeRange">> -> TimeRange_deserialize(v)
               [] variant = <<"Contains">> -> Contains_deserialize(v)
               [] variant = <<"FromFeed">> -> FromFeed_deserialize(v)
               [] OTHER -> Err("unknown variant")

\* Vec<TagRuleEnum> read up to the first element that fails, which it drops
\* with everything after it
RECURSIVE Vec_deserialize_prefix(_, _, _)
Vec_deserialize_prefix(items, i, rs) ==
    IF i > Len(items) THEN Ok(rs)
    ELSE LET r == TagRuleEnum_deserialize(items[i])
         IN  IF ~IsOk(r) THEN Ok(rs)
             ELSE Vec_deserialize_prefix(items, i + 1, Append(rs, r[2]))

\* Deserialize for Vec<TagRuleEnum> from element i on: the first element that
\* fails fails the whole
RECURSIVE Vec_deserialize(_, _, _)
Vec_deserialize(items, i, rs) ==
    IF i > Len(items) THEN Ok(rs)
    ELSE LET r == TagRuleEnum_deserialize(items[i])
         IN  IF ~IsOk(r) THEN r
             ELSE Vec_deserialize(items, i + 1, Append(rs, r[2]))

\* #[derive(Deserialize)] struct TagManager
TagManager_deserialize(v) ==
    IF v.j # "obj" THEN Err("invalid type")
    ELSE IF ~Has(v, "rules", "arr") \/ ~Has(v, "file_path", "str")
    THEN Err("missing field")
    ELSE LET rs == Vec_deserialize(json_get(v, "rules")[1].items, 1, <<>>)
         IN  IF ~IsOk(rs) THEN rs
             ELSE Ok([rules |-> rs[2], file_path |-> json_get(v, "file_path")[1].s])

\* serde_json::from_str::<TagManager>
from_str(contents) ==
    IF "garbage" \in DOMAIN contents THEN Err("expected value")
    ELSE TagManager_deserialize(contents.json)

\* the path main gives the manager
FilePath == <<"tag_rules.json">>

\* TagManager::save_to_file: the text written
save_to_file_text(rs) == to_string(TagManager_serialize(rs, FilePath))

\* load_from_file that takes a missing file for an empty rule set
load_from_file_rules_missing_is_empty(rs, file) ==
    IF file = None THEN <<>>
    ELSE LET loaded == from_str(file[1])
         IN  IF IsOk(loaded) THEN loaded[2].rules ELSE rs

\* TagManager::load_from_file: self.rules after the call
load_from_file_rules(rs, file) ==
    IF file = None THEN rs
    ELSE LET loaded == from_str(file[1])
         IN  IF IsOk(loaded) THEN loaded[2].rules ELSE rs

\* TagManager::load_from_file: the value returned
load_from_file_ret(rs, file) ==
    IF file = None THEN OkUnit
    ELSE LET loaded == from_str(file[1])
         IN  IF IsOk(loaded) THEN OkUnit ELSE loaded

\* ---------------------------------------------------------------- feed.rs: update_feed

\* a row of the items table: the url and the tags stored with it
Row(url, tags) == [url |-> url, tags |-> tags]

\* Database::check_item_exists: whether the table has a row with the url
check_item_exists(st, link) == \E row \in st : row.url = link

\* Database::add_item: INSERT OR REPLACE, one row per (feed_id, url)
add_item(st, feed_item) ==
    {row \in st : row.url # feed_item.url}
    \cup {Row(feed_item.url, feed_item.tags)}

\* the FeedItem update_feed builds from an entry, with its url
entry_item(feed_id, link) ==
    LET fields == FeedItem(1, feed_id, <<>>, link, None, None)
    IN  [f \in DOMAIN fields \cup {"url"} |-> IF f = "url" THEN link ELSE fields[f]]

\* what one call of update_feed leaves behind
Outcome(st, is_stamped, result) == [store |-> st, stamped |-> is_stamped, ret |-> result]

\* the loop of update_feed from entry i on, and what follows it
RECURSIVE update_from(_, _, _, _)
update_from(rs, entries, i, st) ==
    IF i > Len(entries) THEN Outcome(st, TRUE, OkUnit)
    ELSE IF ~check_item_exists(st, entries[i]) THEN Outcome(st, FALSE, OkUnit)
    ELSE update_from(rs, entries, i + 1,
                     add_item(st, apply_rules_item(rs, entry_item(1, entries[i]))))

\* FeedManager::update_feed on what the fetch and parse gave
update_feed_outcome(rs, feed, st) ==
    IF ~IsOk(feed) THEN Outcome(st, FALSE, feed)
    ELSE update_from(rs, feed[2], 1, st)

\* one call of update_feed made by update_feeds, and how it ended
Attempt(feed_id, out) == [feed_id |-> feed_id, ret |-> out.ret, stamped |-> out.stamped]

\* what one call of update_feeds leaves behind
FeedsOutcome(st, calls, result) == [store |-> st, attempts |-> calls, ret |-> result]

\* the loop of update_feeds returning the error of the first feed that fails
RECURSIVE update_feeds_stop_at_error(_, _, _, _, _, _)
update_feeds_stop_at_error(rs, feeds, fetch, i, st, calls) ==
    IF i > Len(feeds) THEN FeedsOutcome(st, calls, OkUnit)
    ELSE LET out == update_feed_outcome(rs, fetch[feeds[i]], st)
         IN  IF ~IsOk(out.ret)
             THEN FeedsOutcome(out.store, Append(calls, Attempt(feeds[i], out)), out.ret)
             ELSE update_feeds_stop_at_error(rs, feeds, fetch, i + 1, out.store,
                                             Append(calls, Attempt(feeds[i], out)))

\* the loop of update_feeds from feed i on: an error of update_feed is logged
\* and the loop goes on
RECURSIVE update_feeds_from(_, _, _, _, _, _)
update_feeds_from(rs, feeds, fetch, i, st, calls) ==
    IF i > Len(feeds) THEN FeedsOutcome(st, calls, OkUnit)
    ELSE LET out == update_feed_outcome(rs, fetch[feeds[i]], st)
         IN  update_feeds_from(rs, feeds, fetch, i + 1, out.store,
                               Append(calls, Attempt(feeds[i], out)))

\* FeedManager::update_feeds on what get_feeds gave
update_feeds_outcome(rs, feeds, fetch, st) ==
    IF ~IsOk(feeds) THEN FeedsOutcome(st, <<>>, feeds)
    ELSE update_feeds_from(rs, feeds[2], fetch, 1, st, <<>>)

\* ---------------------------------------------------------------- inputs

\* Items for find_tag: each family varies the fields one rule type reads.
TimeItems == {FeedItem(1, 1, <<>>, <<"a">>, None, p) : p \in OptTimes}

TextItems ==
    {FeedItem(1, 1, <<>>, t, c, None) :
        t \in Strings, c \in {None} \cup {Some(x) : x \in Strings}}

SourceItems == {FeedItem(i, f, <<>>, <<"a">>, None, None) : i \in Ids, f \in Ids}

FindItems == TimeItems \cup TextItems \cup SourceItems

TimeRangeRules == {TimeRange(TagName(1), 1, s, e) : s \in OptTimes, e \in OptTimes}

ContainsRules == {Contains(TagName(1), 1, t, cs) : t \in Strings, cs \in BOOLEAN}

FromFeedRules == {FromFeed(TagName(1), 1, f) : f \in Ids}

FindRules == TimeRangeRules \cup ContainsRules \cup FromFeedRules

\* Tag lists without repetition: the store keeps (item_id, tag_id) unique.
RECURSIVE TagLists(_)
TagLists(n) ==
    IF n = 0 THEN {<<>>}
    ELSE LET shorter == TagLists(n - 1)
         IN  shorter \cup {Append(s, t) : s \in {u \in shorter : Len(u) = n - 1},
                                          t \in TagIds}

UniqueTagLists == {s \in TagLists(MaxTag) : Cardinality(Range(s)) = Len(s)}

\* Items and rules for apply_rules: a few of each rule type, every tag id.
ApplyItems ==
    {FeedItem(i, 1, tags, t, None, p) :
        i \in {1, MaxId}, tags \in UniqueTagLists, t \in {<<"a">>, <<"b">>},
        p \in {None, Some(1)}}

ApplyRules ==
    {TimeRange(TagName(g), g, s, None) : g \in TagIds, s \in {None, Some(1)}}
    \cup {Contains(TagName(g), g, <<"A">>, FALSE) : g \in TagIds}
    \cup {FromFeed(TagName(g), g, 1) : g \in TagIds}

\* Time texts: "Today ~ <the last day>" and a date with no separator.
TimeTexts == {<<Tok("KW", 0), Sp, Sep, Sp, DateTok(MaxDay)>>, <<DateTok(0)>>}

LeafExprs ==
    {YContains(<<"a">>), YTag(<<"b">>)} \cup {YTime(t) : t \in TimeTexts}

\* Rule expressions of exactly n nodes, and lists of them of m nodes in all.
RECURSIVE ExprsOfSize(_)
RECURSIVE ListsOfSize(_)
ExprsOfSize(n) ==
    (IF n = 1 THEN LeafExprs ELSE {YNot(e) : e \in ExprsOfSize(n - 1)})
    \cup {YAnd(es) : es \in ListsOfSize(n - 1)}
    \cup {YOr(es) : es \in ListsOfSize(n - 1)}

ListsOfSize(m) ==
    IF m = 0 THEN {<<>>}
    ELSE UNION {{<<e>> \o es : e \in ExprsOfSize(k), es \in ListsOfSize(m - k)} :
                    k \in 1..m}

Exprs == UNION {ExprsOfSize(n) : n \in 1..MaxNodes}

Days == 0..MaxDay

\* Items for Rules::evaluate: title and publication time vary.
EvalItems ==
    {FeedItem(1, 1, <<>>, t, None, p) :
        t \in {<<"a">>, <<"b">>}, p \in {None, Some(0), Some(MaxTime)}}

\* Folder definitions: two names, and rules that convert (contains) and do
\* not (a time text without separator, a not over a branch).
FolderNames == {<<"f">>, <<"g">>}

FolderExprs == {YContains(<<"a">>), YTime(<<DateTok(0)>>), YNot(YAnd(<<>>))}

YamlFolders == {YamlFolder(n, e) : n \in FolderNames, e \in FolderExprs}

RECURSIVE DocsUpTo(_)
DocsUpTo(n) ==
    IF n = 0 THEN {<<>>}
    ELSE LET shorter == DocsUpTo(n - 1)
         IN  shorter \cup {Append(d, f) : d \in {x \in shorter : Len(x) = n - 1},
                                          f \in YamlFolders}

\* Folder definitions for classify: rules over the title that overlap, exclude
\* each other, or fail to convert.
ClassNames == {<<"f">>, <<"g">>, <<"h">>}

ClassExprs ==
    {YContains(<<"a">>), YContains(<<"b">>), YNot(YContains(<<"a">>)),
     YAnd(<<YContains(<<"a">>), YContains(<<"b">>)>>), YTime(<<DateTok(0)>>)}

ClassDocs ==
    {<<>>}
    \cup {<<YamlFolder(<<"f">>, e)>> : e \in ClassExprs}
    \cup {<<YamlFolder(<<"f">>, e1), YamlFolder(n, e2)>> :
            n \in ClassNames, e1 \in ClassExprs, e2 \in ClassExprs}

ClassItems ==
    {FeedItem(1, 1, <<>>, t, None, None) : t \in {<<>>, <<"a">>, <<"b">>, <<"a", "b">>}}

\* Rules for the rule file: one of each variant.
PersistRules ==
    {TimeRange(TagName(2), 2, Some(1), None), Contains(TagName(1), 1, <<"a">>, FALSE),
     FromFeed(TagName(1), 1, MaxId)}

\* a document whose second rule lacks its tag_id: what a file cut short and
\* closed by hand looks like
BadRuleDoc ==
    JObj(<<<<"rules", JArr(<<TagRuleEnum_serialize(FromFeed(TagName(1), 1, 1)),
                             JObj(<<<<"type", JStr(<<"FromFeed">>)>>,
                                    <<"name", JStr(TagName(1))>>>>)>>)>>,
           <<"file_path", JStr(FilePath)>>>>)

\* One edit of the rule file from outside: removed, or overwritten with text
\* that is not JSON or with a document holding a broken rule.
RuleFileEdits == {None, Some(NotJson), Some(to_string(BadRuleDoc))}

\* targets of the add-contains command
Targets == {<<"a">>, <<"(">>}

\* Entries of a fetched feed, by link; the title of an entry is its link.
Links == {<<"a">>, <<"b">>}

RECURSIVE EntryLists(_)
EntryLists(n) ==
    IF n = 0 THEN {<<>>}
    ELSE LET shorter == EntryLists(n - 1)
         IN  shorter \cup {Append(e, l) : e \in {x \in shorter : Len(x) = n - 1},
                                          l \in Links}

\* What fetching and parsing a feed gives: an error, or the entries.
Fetches == {Err("fetch failed")} \cup {Ok(e) : e \in EntryLists(MaxEntries)}

\* The rules of the manager the FeedManager is built with.
FeedRuleSets == {<<>>, <<Contains(TagName(1), 1, <<"a">>, TRUE)>>}

\* The items table as the database file holds it when the program starts.
Stores ==
    {st \in SUBSET {Row(l, tags) : l \in Links, tags \in {<<>>, <<1>>}} :
        \A x, y \in st : x.url = y.url => x = y}

\* One side of a time text: empty, blank, a keyword in either case, a date
\* with or without blanks around it, and text that is neither.
Sides ==
    {<<>>, <<Sp>>, <<Junk>>, <<Tok("kw", -1)>>, <<Tok("KW", 1)>>,
     <<Sp, DateTok(0), Sp>>, <<DateTok(0), Junk>>}
    \cup {<<DateTok(d)>> : d \in Days}

\* Time texts with no separator, with one, and with two.
RangeTexts ==
    Sides
    \cup {s1 \o <<Sep>> \o s2 : s1 \in Sides, s2 \in Sides}
    \cup {<<Sep, Sep>>, <<DateTok(0), Sep, DateTok(0), Sep>>}

\* Items published at every instant from just before day 0 to the start of
\* the day after the last, and one with no publication time.
DayItems ==
    {FeedItem(1, 1, <<>>, <<"a">>, None, p) :
        p \in {None} \cup {Some(t) : t \in (StartOfDay(0) - 1)..StartOfDay(MaxDay + 1)}}

\* bounds given to the add-time-range command: none, a time, text that is
\* not a time
BoundArgs == {None, Some(to_rfc3339(1)), Some(<<"x">>)}

\* The feeds table: some of the feeds, in any order.
FeedIds == 1..MaxFeeds

RECURSIVE FeedListsUpTo(_)
FeedListsUpTo(n) ==
    IF n = 0 THEN {<<>>}
    ELSE LET shorter == FeedListsUpTo(n - 1)
         IN  shorter \cup {Append(t, f) : t \in {x \in shorter : Len(x) = n - 1},
                                          f \in FeedIds}

FeedTables == {t \in FeedListsUpTo(MaxFeeds) : Cardinality(Range(t)) = Len(t)}

\* What fetching each feed gives during one update_feeds.
FeedFetches == [FeedIds -> {Err("fetch failed"), Ok(<<>>), Ok(<<<<"a">>>>)}]

\* What the configuration file can be: missing, unreadable, not YAML of the
\* expected shape, or a document of folder definitions.
Configs ==
    {None, Some(Unreadable), Some(NotYaml)}
    \cup {Some(YamlConfig(d)) : d \in DocsUpTo(MaxFolders)}

\* One edit of the configuration file: removed, made unreadable, overwritten
\* with text that is not YAML or with an empty document, or a document gaining
\* one definition at its end.
Edits(file) ==
    {None, Some(Unreadable), Some(NotYaml), Some(YamlConfig(<<>>))}
    \cup (IF file # None /\ "folders" \in DOMAIN file[1]
                          /\ Len(file[1].folders) < MaxFolders
          THEN {Some(YamlConfig(Append(file[1].folders, f))) : f \in YamlFolders}
          ELSE {})

\* ---------------------------------------------------------------- actions

\* TagRuleEnum::find_tag called on one rule and the current item.  The call is
\* pure: one call per behaviour reaches every (rule, item) pair.
find_tag(rule) ==
    /\ op = "new"
    /\ probe' = Some([rule |-> rule, result |-> TagRuleEnum_find_tag(rule, item)])
    /\ op' = "find_tag"
    /\ streak' = 0
    /\ UNCHANGED <<rules, item, before, ret, today, treeVars, folderVars, restVars>>

\* TagManager::add_rule
add_rule(rule) ==
    /\ Len(rules) < MaxRules
    /\ rules' = Append(rules, rule)
    /\ op' = "add_rule"
    /\ streak' = 0
    /\ UNCHANGED <<item, before, ret, probe, today, treeVars, folderVars, restVars>>

\* TagManager::apply_rules on the current item
apply_rules ==
    /\ before' = item
    /\ item' = apply_rules_item(rules, item)
    /\ ret' = Some(apply_rules_ret(rules, item))
    /\ op' = "apply_rules"
    /\ streak' = IF streak < 2 THEN streak + 1 ELSE 2
    /\ UNCHANGED <<rules, probe, today, treeVars, folderVars, restVars>>

\* FolderManager::parse_yaml_rule_item called on the expression
parse ==
    /\ expr # None
    /\ parsed = None
    /\ parsed' = Some(parse_yaml_rule_item(expr[1], today))
    /\ UNCHANGED <<tagVars, today, expr, eval_item, eval_result, folderVars, restVars>>

\* Rules::evaluate called on the parsed tree and an item
evaluate(feed) ==
    /\ parsed # None
    /\ IsOk(parsed[1])
    /\ eval_item' = Some(feed)
    /\ eval_result' = Some(Rules_evaluate(parsed[1][2], feed))
    /\ UNCHANGED <<tagVars, today, expr, parsed, folderVars, restVars>>

\* the configuration file is edited or removed outside the program
write_config(file) ==
    /\ config' = file
    /\ fop' = "write_config"
    /\ UNCHANGED <<tagVars, today, treeVars, folders, reload_ret, restVars>>

\* reload_config that empties the list when the load fails
reload_config_forgets ==
    LET r == load_yaml_config(config, today)
    IN  /\ folders' = IF IsOk(r) THEN r[2] ELSE <<>>
        /\ reload_ret' = Some(IF IsOk(r) THEN OkUnit ELSE r)
        /\ fop' = "reload_config"
        /\ UNCHANGED <<tagVars, today, treeVars, config, restVars>>

\* reload_config that adds the loaded folders to the list it has
reload_config_extends ==
    LET r == load_yaml_config(config, today)
    IN  /\ folders' = IF IsOk(r) THEN folders \o r[2] ELSE folders
        /\ reload_ret' = Some(IF IsOk(r) THEN OkUnit ELSE r)
        /\ fop' = "reload_config"
        /\ UNCHANGED <<tagVars, today, treeVars, config, restVars>>

\* FolderManager::reload_config
reload_config ==
    LET r == load_yaml_config(config, today)
    IN  /\ folders' = IF IsOk(r) THEN r[2] ELSE folders
        /\ reload_ret' = Some(IF IsOk(r) THEN OkUnit ELSE r)
        /\ fop' = "reload_config"
        /\ UNCHANGED <<tagVars, today, treeVars, config, restVars>>

\* TagManager::save_to_file
save_to_file ==
    /\ rule_file' = Some(save_to_file_text(rules))
    /\ saved' = Some(rules)
    /\ ret' = Some(OkUnit)
    /\ op' = "save_to_file"
    /\ UNCHANGED <<rules, item, before, streak, probe, today, treeVars, folderVars,
                   classVars, feedVars, runVars, feedsVars>>

\* TagManager::load_from_file
load_from_file ==
    /\ rules' = load_from_file_rules(rules, rule_file)
    /\ ret' = Some(load_from_file_ret(rules, rule_file))
    /\ op' = "load_from_file"
    /\ UNCHANGED <<item, before, streak, probe, today, treeVars, folderVars, restVars>>

\* the rule file changed outside the program
edit_rule_file(file) ==
    /\ file # rule_file
    /\ rule_file' = file
    /\ saved' = None
    /\ op' = "edit_rule_file"
    /\ UNCHANGED <<rules, item, before, ret, streak, probe, today, treeVars,
                   folderVars, classVars, feedVars, runVars, feedsVars>>

\* a run of the add-contains command: main constructs the manager with no
\* rules, adds the rule built from the arguments and saves
main_add_contains(name, target, case_sensitive) ==
    LET regex_pattern == IF case_sensitive THEN target
                         ELSE <<"(", "?", "i", ")">> \o target
        tag == Tag_new(name)
        rule == Contains_regex(tag, regex_pattern)
        new_rules == Append(<<>>, rule)
    IN  /\ Len(added) < MaxRuns
        /\ rules' = new_rules
        /\ rule_file' = Some(save_to_file_text(new_rules))
        /\ saved' = Some(new_rules)
        /\ ret' = Some(OkUnit)
        /\ op' = "main_add_contains"
        /\ added' = Append(added, rule)
        /\ UNCHANGED <<item, before, streak, probe, today, treeVars, folderVars,
                       classVars, feedVars, feedsVars>>

\* a run of the add-time-range command: main constructs the manager with no
\* rules, parses the bounds given, and adds the rule and saves unless a bound
\* does not parse
main_add_time_range(name, start, end) ==
    LET start_date == IF start = None THEN Ok(None)
                      ELSE LET t == parse_from_rfc3339(start[1])
                           IN  IF IsOk(t) THEN Ok(Some(t[2])) ELSE t
        end_date == IF end = None THEN Ok(None)
                    ELSE LET t == parse_from_rfc3339(end[1])
                         IN  IF IsOk(t) THEN Ok(Some(t[2])) ELSE t
        failure == IF ~IsOk(start_date) THEN start_date ELSE end_date
        rule == TimeRange_tagged(Tag_new(name), start_date[2], end_date[2])
        new_rules == Append(<<>>, rule)
    IN  /\ Len(added) < MaxRuns
        /\ op' = "main_add_time_range"
        /\ IF IsOk(start_date) /\ IsOk(end_date)
           THEN /\ rules' = new_rules
                /\ rule_file' = Some(save_to_file_text(new_rules))
                /\ saved' = Some(new_rules)
                /\ ret' = Some(OkUnit)
                /\ added' = Append(added, rule)
           ELSE /\ rules' = <<>>
                /\ ret' = Some(failure)
                /\ UNCHANGED <<rule_file, saved, added>>
        /\ UNCHANGED <<item, before, streak, probe, today, treeVars, folderVars,
                       classVars, feedVars, feedsVars>>

\* FeedManager::update_feed
update_feed(feed) ==
    LET out == update_feed_outcome(rules, feed, store)
    IN  /\ store_before' = store
        /\ fetched' = Some(feed)
        /\ store' = out.store
        /\ stamped' = out.stamped
        /\ ret' = Some(out.ret)
        /\ op' = "update_feed"
        /\ UNCHANGED <<rules, item, before, streak, probe, today, treeVars, folderVars,
                       classVars, persistVars, runVars, feedsVars>>

\* FeedManager::update_feeds
update_feeds(db_ok, fetch) ==
    LET feeds == IF db_ok THEN Ok(feed_table) ELSE Err("database error")
        out == update_feeds_outcome(rules, feeds, fetch, store)
    IN  /\ store_before' = store
        /\ fetched' = Some([feeds |-> feeds, fetch |-> fetch])
        /\ store' = out.store
        /\ attempts' = out.attempts
        /\ stamped' = IF out.attempts = <<>> THEN stamped
                      ELSE out.attempts[Len(out.attempts)].stamped
        /\ ret' = Some(out.ret)
        /\ op' = "update_feeds"
        /\ UNCHANGED <<rules, item, before, streak, probe, today, treeVars, folderVars,
                       classVars, persistVars, runVars, feed_table>>

\* classify called on the manager's folders
classify(feed) ==
    /\ class_item' = Some(feed)
    /\ class_result' = Some(classify_names(folders, feed))
    /\ UNCHANGED <<tagVars, today, treeVars, folderVars, persistVars, feedVars,
                   runVars, feedsVars>>

\* ---------------------------------------------------------------- specifications

\* the folder variables where no FolderManager is in play
IdleFolder ==
    /\ config = None
    /\ folders = <<>>
    /\ fop = "idle"
    /\ reload_ret = None

\* no classify call was made
IdleClassify ==
    /\ class_item = None
    /\ class_result = None

\* no rule file is in play
IdlePersist ==
    /\ rule_file = None
    /\ saved = None

\* no feed is being updated
IdleFeed ==
    /\ store = {}
    /\ store_before = {}
    /\ fetched = None
    /\ stamped = FALSE

\* no add command was run
IdleRuns == added = <<>>

\* no feeds are in the table
IdleFeeds ==
    /\ feed_table = <<>>
    /\ attempts = <<>>

IdleRest ==
    /\ IdleClassify
    /\ IdlePersist
    /\ IdleFeed
    /\ IdleRuns
    /\ IdleFeeds

\* the tree variables where no rule expression is in play
IdleTree ==
    /\ today = 0
    /\ IdleRest
    /\ IdleFolder
    /\ expr = None
    /\ parsed = None
    /\ eval_item = None
    /\ eval_result = None

InitTag(items) ==
    /\ IdleTree
    /\ rules = <<>>
    /\ item \in items
    /\ before = item
    /\ ret = None
    /\ op = "new"
    /\ streak = 0
    /\ probe = None

InitFindTag == InitTag(FindItems)

NextFindTag == \E rule \in FindRules : find_tag(rule)

\* find_tag of every rule type on every item
SpecFindTag == InitFindTag /\ [][NextFindTag]_vars

InitApply == InitTag(ApplyItems)

NextApply ==
    \/ \E rule \in ApplyRules : add_rule(rule)
    \/ apply_rules

\* a TagManager that gains rules and applies them to an item
SpecApply == InitApply /\ [][NextApply]_vars

\* the tag variables where no TagManager is in play
IdleTag ==
    /\ rules = <<>>
    /\ item = None
    /\ before = None
    /\ ret = None
    /\ op = "idle"
    /\ streak = 0
    /\ probe = None

InitTree ==
    /\ IdleTag
    /\ IdleRest
    /\ IdleFolder
    /\ today \in Days
    /\ expr \in {Some(e) : e \in Exprs}
    /\ parsed = None
    /\ eval_item = None
    /\ eval_result = None

NextTree ==
    \/ parse
    \/ \E feed \in EvalItems : evaluate(feed)

\* a rule expression parsed into a tree, and the tree evaluated on items
SpecTree == InitTree /\ [][NextTree]_vars

\* FolderManager::new on whatever the configuration file is
InitFolder ==
    /\ IdleTag
    /\ IdleRest
    /\ today \in Days
    /\ expr = None
    /\ parsed = None
    /\ eval_item = None
    /\ eval_result = None
    /\ config \in Configs
    /\ folders = new_folders(config, today)
    /\ fop = "new"
    /\ reload_ret = None

NextFolder ==
    \/ \E file \in Edits(config) : write_config(file)
    \/ reload_config

\* a FolderManager, its configuration file changing under it
SpecFolder == InitFolder /\ [][NextFolder]_vars

\* FolderManager::new on a document of folder definitions
InitClassify ==
    /\ IdleTag
    /\ IdleRest
    /\ today = 0
    /\ expr = None
    /\ parsed = None
    /\ eval_item = None
    /\ eval_result = None
    /\ config \in {Some(YamlConfig(d)) : d \in ClassDocs}
    /\ folders = new_folders(config, today)
    /\ fop = "new"
    /\ reload_ret = None

NextClassify == \E feed \in ClassItems : classify(feed)

\* items classified against the folders of a loaded catalog
SpecClassify == InitClassify /\ [][NextClassify]_vars

\* TagManager::new, no rule file written yet
InitPersist ==
    /\ IdleTree
    /\ rules = <<>>
    /\ item = None
    /\ before = None
    /\ ret = None
    /\ op = "new"
    /\ streak = 0
    /\ probe = None

NextPersist ==
    \/ \E rule \in PersistRules : add_rule(rule)
    \/ save_to_file
    \/ load_from_file
    \/ \E file \in RuleFileEdits : edit_rule_file(file)

\* a TagManager that gains rules, saves and loads them, its file changing
\* under it
SpecPersist == InitPersist /\ [][NextPersist]_vars

\* FeedManager::new on a database and a tag manager
InitFeed ==
    /\ today = 0
    /\ IdleFolder
    /\ IdleClassify
    /\ IdlePersist
    /\ IdleRuns
    /\ IdleFeeds
    /\ expr = None
    /\ parsed = None
    /\ eval_item = None
    /\ eval_result = None
    /\ rules \in FeedRuleSets
    /\ item = None
    /\ before = None
    /\ ret = None
    /\ op = "new"
    /\ streak = 0
    /\ probe = None
    /\ store \in Stores
    /\ store_before = store
    /\ fetched = None
    /\ stamped = FALSE

NextFeed == \E feed \in Fetches : update_feed(feed)

\* one feed updated again and again
SpecFeed == InitFeed /\ [][NextFeed]_vars

\* a time rule of a folder definition, not yet parsed
InitTime ==
    /\ IdleTag
    /\ IdleFolder
    /\ IdleRest
    /\ today \in Days
    /\ expr \in {Some(YTime(t)) : t \in RangeTexts}
    /\ parsed = None
    /\ eval_item = None
    /\ eval_result = None

NextTime ==
    \/ parse
    \/ \E feed \in DayItems : evaluate(feed)

\* a time text parsed into a leaf, and the leaf evaluated on items
SpecTime == InitTime /\ [][NextTime]_vars

NextRuns ==
    \/ \E name \in {TagName(1), TagName(MaxTag)}, target \in Targets,
          case_sensitive \in BOOLEAN :
          main_add_contains(name, target, case_sensitive)
    \/ \E start \in BoundArgs, end \in BoundArgs :
          main_add_time_range(TagName(1), start, end)

\* the program run again and again with an add command, the rule file kept
\* between the runs
SpecRuns == InitPersist /\ [][NextRuns]_vars

\* FeedManager::new on a database that holds feeds and items
InitFeeds ==
    /\ today = 0
    /\ IdleFolder
    /\ IdleClassify
    /\ IdlePersist
    /\ IdleRuns
    /\ expr = None
    /\ parsed = None
    /\ eval_item = None
    /\ eval_result = None
    /\ rules \in FeedRuleSets
    /\ item = None
    /\ before = None
    /\ ret = None
    /\ op = "new"
    /\ streak = 0
    /\ probe = None
    /\ store \in Stores
    /\ store_before = store
    /\ fetched = None
    /\ stamped = FALSE
    /\ feed_table \in FeedTables
    /\ attempts = <<>>

NextFeeds == \E db_ok \in BOOLEAN, fetch \in FeedFetches : update_feeds(db_ok, fetch)

\* all feeds updated again and again
SpecFeeds == InitFeeds /\ [][NextFeeds]_vars

\* ---------------------------------------------------------------- claims C1..C6

\* the tag ids of the rules of rs that match feed_item
MatchingTagIds(rs, feed_item) ==
    {rs[i].tag_id : i \in {j \in 1..Len(rs) : TagRuleEnum_find_tag(rs[j], feed_item) # None}}

\* C1: applying the rule set a second time in a row leaves the item's tags
\* (the list, and so the set) as the first application left them.
C1_ApplyIdempotent ==
    streak >= 2 => /\ item.tags = before.tags
                   /\ Range(item.tags) = Range(before.tags)

C1_Witness ==
    /\ streak >= 2
    /\ Len(rules) = MaxRules
    /\ MatchingTagIds(rules, item) # {}
    /\ MatchingTagIds(rules, item) \subseteq Range(item.tags)

\* C2: apply_rules keeps every tag the item had and adds exactly the tags of
\* the rules that match the item; nothing else of the item changes.
C2_ApplyOnlyAdds ==
    op = "apply_rules" =>
        /\ Range(before.tags) \subseteq Range(item.tags)
        /\ Range(item.tags) = Range(before.tags) \cup MatchingTagIds(rules, before)
        /\ [item EXCEPT !.tags = before.tags] = before

C2_Witness ==
    /\ op = "apply_rules"
    /\ before.tags # <<>>
    /\ Len(item.tags) > Len(before.tags)

TimeRangeTable(start, end, published_at) ==
    CASE published_at = None -> FALSE
      [] published_at # None /\ start = None /\ end = None -> FALSE
      [] published_at # None /\ start # None /\ end = None -> published_at[1] >= start[1]
      [] published_at # None /\ start = None /\ end # None -> published_at[1] <= end[1]
      [] published_at # None /\ start # None /\ end # None ->
            start[1] <= published_at[1] /\ published_at[1] <= end[1]

\* C4: TimeRange.find_tag follows the decision table, both bounds inclusive,
\* and a match is the rule's tag.
C4_TimeRangeDecisionTable ==
    (probe # None /\ probe[1].rule.type = "TimeRange") =>
        LET r == probe[1].rule
        IN  /\ (probe[1].result # None)
                  = TimeRangeTable(r.start, r.end, item.published_at)
            /\ probe[1].result \in {None, Some(Tag(r.tag_id, r.name))}

C4_Witness ==
    /\ probe # None
    /\ probe[1].rule.type = "TimeRange"
    /\ probe[1].rule.start # None
    /\ probe[1].rule.end # None
    /\ probe[1].rule.start[1] < probe[1].rule.end[1]
    /\ item.published_at = probe[1].rule.end
    /\ probe[1].result # None

\* two characters are the same, up to letter case unless case_sensitive
SameChar(c, d, case_sensitive) ==
    \/ c = d
    \/ ~case_sensitive /\ LowerChar(c) = LowerChar(d)

\* pattern occurs in text: some window of text is pattern, character by character
OccursIn(pattern, text, case_sensitive) ==
    \E i \in 0..(Len(text) - Len(pattern)) :
        \A k \in 1..Len(pattern) : SameChar(text[i + k], pattern[k], case_sensitive)

\* C5: Contains.find_tag returns the rule's tag iff the pattern occurs in the
\* title, or the content is present and the pattern occurs in it; otherwise
\* None.  Without case_sensitive, letter case is ignored on both sides.
C5_ContainsTitleThenContent ==
    (probe # None /\ probe[1].rule.type = "Contains") =>
        LET r == probe[1].rule
            inTitle == OccursIn(r.target_string, item.title, r.case_sensitive)
            inContent == /\ item.content # None
                         /\ OccursIn(r.target_string, item.content[1], r.case_sensitive)
        IN  probe[1].result =
                IF inTitle \/ (~inTitle /\ inContent)
                THEN Some(Tag(r.tag_id, r.name)) ELSE None

C5_Witness ==
    /\ probe # None
    /\ probe[1].rule.type = "Contains"
    /\ ~probe[1].rule.case_sensitive
    /\ probe[1].rule.target_string = <<"A">>
    /\ item.title = <<"b">>
    /\ item.content = Some(<<"b", "a">>)
    /\ probe[1].result # None

\* C6 as claimed: FromFeed.find_tag matches iff the item's feed id is the
\* rule's feed id, whatever the item's own id.
C6_FromFeedMatchesSource ==
    (probe # None /\ probe[1].rule.type = "FromFeed") =>
        (probe[1].result # None) = (item.feed_id = probe[1].rule.feed_id)

\* ---------------------------------------------------------------- claims C7..C10

\* the boolean value of a tree on an item, by recursion on the tree
RECURSIVE RefEval(_, _)
RefEval(tree, feed) ==
    IF tree.node = "LEAF"
    THEN (TagRuleEnum_find_tag(tree.rule_type, feed) # None) # tree.reverse
    ELSE IF tree.is_and
         THEN \A i \in 1..Len(tree.rules) : RefEval(tree.rules[i], feed)
         ELSE \E i \in 1..Len(tree.rules) : RefEval(tree.rules[i], feed)

\* C7: evaluate gives the recursive boolean value of the tree on the item: a
\* leaf is its rule's match, inverted under reverse; AND is true iff every
\* child is (true when empty); OR is true iff some child is (false when empty).
C7_EvaluateIsBooleanReference ==
    eval_result # None => eval_result[1] = RefEval(parsed[1][2], eval_item[1])

C7_Witness ==
    /\ eval_result = Some(FALSE)
    /\ parsed[1][2].node = "NODE"
    /\ parsed[1][2].is_and
    /\ Len(parsed[1][2].rules) = 2
    /\ parsed[1][2].rules[1].node = "LEAF"
    /\ parsed[1][2].rules[1].reverse
    /\ RefEval(parsed[1][2].rules[1], eval_item[1])
    /\ parsed[1][2].rules[2].node = "NODE"
    /\ ~parsed[1][2].rules[2].is_and
    /\ parsed[1][2].rules[2].rules = <<>>

\* a leaf expression: tag, time or contains
IsLeafExpr(e) == Is(e, "tag") \/ Is(e, "time") \/ Is(e, "contains")

\* C8 as claimed: the tree of not(not(x)), x a leaf expression, evaluates as
\* the tree of x does, on every item.
C8_DoubleNegation ==
    (/\ eval_result # None
     /\ Is(expr[1], "not")
     /\ Is(expr[1].not, "not")
     /\ IsLeafExpr(expr[1].not.not))
    => eval_result[1]
         = Rules_evaluate(parse_yaml_rule_item(expr[1].not.not, today)[2], eval_item[1])

\* C9 as claimed: a not over any child expression that parses is parsed too,
\* and its tree evaluates to the negation of the child's tree.
C9_NotAcceptsAnySubtree ==
    (/\ parsed # None
     /\ Is(expr[1], "not")
     /\ IsOk(parse_yaml_rule_item(expr[1].not, today)))
    => /\ IsOk(parsed[1])
       /\ eval_result # None =>
            eval_result[1]
              = ~Rules_evaluate(parse_yaml_rule_item(expr[1].not, today)[2], eval_item[1])

\* the definitions of a document that convert
Convertible(doc, now) ==
    {j \in 1..Len(doc) : IsOk(convert_yaml_folder_to_folder(doc[j], now))}

\* loaded is the converted definitions of doc, in the order of doc
IsConvertedInOrder(loaded, doc, now) ==
    /\ Len(loaded) = Cardinality(Convertible(doc, now))
    /\ \A j \in Convertible(doc, now) :
           loaded[Cardinality({h \in Convertible(doc, now) : h <= j})]
             = convert_yaml_folder_to_folder(doc[j], now)[2]

\* C10: after a load of a readable document (at construction or by reload),
\* the folder list is the definitions that convert, in document order: a
\* definition that fails is passed over, the later ones are loaded, and the
\* load succeeds.
C10_LoadIsBestEffort ==
    (/\ fop \in {"new", "reload_config"}
     /\ config # None
     /\ "folders" \in DOMAIN config[1])
    => /\ IsConvertedInOrder(folders, config[1].folders, today)
       /\ fop = "reload_config" => reload_ret = Some(OkUnit)

C10_Witness ==
    /\ fop = "reload_config"
    /\ config # None
    /\ "folders" \in DOMAIN config[1]
    /\ Len(config[1].folders) = MaxFolders
    /\ 1 \notin Convertible(config[1].folders, today)
    /\ Len(folders) = MaxFolders - 1
    /\ folders[Len(folders)].name = config[1].folders[MaxFolders].name

\* ---------------------------------------------------------------- claims C11..C20

\* the file is missing, cannot be read, or is not a catalog document
SourceFails(file) ==
    \/ file = None
    \/ "io_error" \in DOMAIN file[1]
    \/ "yaml_error" \in DOMAIN file[1]

\* C11: a reload_config whose source is missing, unreadable or unparseable
\* leaves the folder list as it was and returns the error, after any earlier
\* loads and reloads.
C11_FailedReloadKeepsFolders ==
    [][(fop' = "reload_config" /\ SourceFails(config'))
        => /\ folders' = folders
           /\ reload_ret' # None
           /\ ~IsOk(reload_ret'[1])]_vars

C11_Witness ==
    /\ fop = "reload_config"
    /\ SourceFails(config)
    /\ ~IsOk(reload_ret[1])
    /\ folders # <<>>

\* the folders that the definitions of a document convert to
ConvertedSet(doc, now) ==
    {convert_yaml_folder_to_folder(doc[j], now)[2] : j \in Convertible(doc, now)}

\* C12: a reload_config that succeeds replaces the folder list as a whole by
\* the list parsed from the source: one folder per definition that converts,
\* and no folder of the previous list that the document does not define.
C12_ReloadReplacesWholeList ==
    [][(fop' = "reload_config" /\ ~SourceFails(config'))
        => /\ reload_ret' = Some(OkUnit)
           /\ Len(folders') = Cardinality(Convertible(config'[1].folders, today'))
           /\ Range(folders') = ConvertedSet(config'[1].folders, today')
           /\ \A i \in 1..Len(folders) :
                 folders[i] \notin ConvertedSet(config'[1].folders, today')
                    => folders[i] \notin Range(folders')]_vars

C12_Witness ==
    /\ fop = "reload_config"
    /\ reload_ret = Some(OkUnit)
    /\ ~SourceFails(config)
    /\ Len(config[1].folders) = MaxFolders
    /\ Len(folders) = 1

\* C19: after a load or a reload no two folders of the in-memory list have
\* the same name, whatever the source document contains.
C19_FolderNamesUnique ==
    \A i, j \in 1..Len(folders) : folders[i].name = folders[j].name => i = j

\* the orders a list of n rules can be written in
Orders(n) == {p \in [1..n -> 1..n] : \A i, j \in 1..n : p[i] = p[j] => i = j}

Reordered(rs, p) == [i \in 1..Len(rs) |-> rs[p[i]]]

\* C20: the tag set of an item after apply_rules is the same for every order
\* the rules of the set can be written in.
C20_ApplyIgnoresRuleOrder ==
    op = "apply_rules" =>
        \A p \in Orders(Len(rules)) :
            Range(apply_rules_item(Reordered(rules, p), before).tags) = Range(item.tags)

C20_Witness ==
    /\ op = "apply_rules"
    /\ Len(rules) = 2
    /\ before.tags = <<>>
    /\ Len(item.tags) = 2
    /\ item.tags[1] # item.tags[2]

\* the folders of fs whose root has the boolean value true on feed
TrueFolders(fs, feed) == {i \in 1..Len(fs) : RefEval(fs[i].root, feed)}

C14_MissingSourceYieldsEmpty ==
    (op = "load_from_file" /\ rule_file = None)
        => (ret = Some(OkUnit) /\ rules = <<>>)

\* C14: load_from_file with no file succeeds and leaves the rules of the
\* manager as they were: empty on a manager just constructed, otherwise the
\* rules it held.
C14_MissingSourceKeepsRules ==
    [][(op' = "load_from_file" /\ rule_file = None)
        => (ret' = Some(OkUnit) /\ rules' = rules)]_vars

C14_Witness ==
    /\ op = "load_from_file"
    /\ rule_file = None
    /\ ret = Some(OkUnit)
    /\ rules # <<>>

\* the file exists and does not hold a rule set document
Malformed(file) == file \in {Some(NotJson), Some(to_string(BadRuleDoc))}

\* C15: load_from_file on a file that exists but is malformed returns an
\* error and leaves the rules of the manager unchanged: not emptied, and not
\* replaced by the rules before the broken one.
C15_MalformedSourceFailsAndKeepsRules ==
    [][(op' = "load_from_file" /\ Malformed(rule_file))
        => /\ ret' # None
           /\ ~IsOk(ret'[1])
           /\ rules' = rules]_vars

C15_Witness ==
    /\ op = "load_from_file"
    /\ rule_file = Some(to_string(BadRuleDoc))
    /\ ~IsOk(ret[1])
    /\ Len(rules) = 2

\* C16: load_from_file on the file save_to_file wrote gives the saved rules:
\* the same list in the same order, field for field, the empty list and
\* lists with a rule twice included.
C16_SaveThenLoadRoundTrip ==
    (op = "load_from_file" /\ saved # None)
        => (ret = Some(OkUnit) /\ rules = saved[1])

C16_Witness ==
    /\ op = "load_from_file"
    /\ saved # None
    /\ Len(rules) = 2
    /\ rules[1].type = "TimeRange"
    /\ rules[2].type = "Contains"

\* how many groups of p are open after its first i characters, -1 once a
\* group was closed that was not open
RECURSIVE OpenGroups(_, _)
OpenGroups(p, i) ==
    IF i = 0 THEN 0
    ELSE LET d == OpenGroups(p, i - 1)
         IN  IF d < 0 THEN d
             ELSE IF p[i] = "(" THEN d + 1
             ELSE IF p[i] = ")" THEN d - 1
             ELSE d

\* the pattern compiles: every group it opens is closed
IsValidPattern(p) == OpenGroups(p, Len(p)) = 0

\* C17: no Contains rule with a pattern that does not compile is in the rule
\* set: the operation that would add one fails.
C17_NoInvalidPatternInRuleSet ==
    \A i \in 1..Len(rules) :
        rules[i].type = "Contains" => IsValidPattern(rules[i].target_string)

\* the urls of the rows of a table
Urls(st) == {row.url : row \in st}

\* C18: update_feed on a fetched feed adds every entry that was not in the
\* store, tagged by the rules, leaves every entry that was in the store as it
\* was, reaches the end of the entries and updates the feed's timestamp.
C18_SkipAndContinue ==
    (op = "update_feed" /\ IsOk(fetched[1])) =>
        /\ \A i \in 1..Len(fetched[1][2]) :
              LET link == fetched[1][2][i]
              IN  IF link \in Urls(store_before)
                  THEN \E row \in store_before : row.url = link /\ row \in store
                  ELSE Row(link, apply_rules_item(rules, entry_item(1, link)).tags)
                          \in store
        /\ stamped
        /\ ret = Some(OkUnit)

\* ---------------------------------------------------------------- claims C21..C23

\* where the separators of a time text are
SepAt(text) == {i \in 1..Len(text) : text[i] = Sep}

\* a side without the blanks before and after it
Strip(side) ==
    LET ink == {i \in 1..Len(side) : side[i] # Sp}
    IN  IF ink = {} THEN <<>>
        ELSE SubSeq(side, CHOOSE i \in ink : \A h \in ink : i <= h,
                          CHOOSE i \in ink : \A h \in ink : h <= i)

\* the two sides of a text with one separator
LeftSide(text) == Strip(SubSeq(text, 1, (CHOOSE i \in SepAt(text) : TRUE) - 1))

RightSide(text) == Strip(SubSeq(text, (CHOOSE i \in SepAt(text) : TRUE) + 1, Len(text)))

IsKeywordSide(side) == Len(side) = 1 /\ side[1].t \in {"kw", "KW"}

IsDateSide(side) == Len(side) = 1 /\ side[1].t = "date"

GoodSide(side) == side = <<>> \/ IsKeywordSide(side) \/ IsDateSide(side)

\* a text "<start> ~ <end>" whose sides are each empty, a keyword or a date
GoodText(text) ==
    /\ Cardinality(SepAt(text)) = 1
    /\ GoodSide(LeftSide(text))
    /\ GoodSide(RightSide(text))

\* 00:00:00 and 23:59:59 of day d, and the first instant of the next day
Midnight(d) == d * DayLen * Ticks

LastSecond(d) == Midnight(d) + (DayLen - 1) * Ticks

NextMidnight(d) == Midnight(d) + DayLen * Ticks

\* the construction part of C21: errors, absent bounds, resolved dates
TimeLeafAsSpecified(text, result) ==
    IF ~GoodText(text) THEN ~IsOk(result)
    ELSE /\ IsOk(result)
         /\ result[2].node = "LEAF"
         /\ ~result[2].reverse
         /\ result[2].rule_type.type = "TimeRange"
         /\ LeftSide(text) = <<>> => result[2].rule_type.start = None
         /\ RightSide(text) = <<>> => result[2].rule_type.end = None
         /\ IsDateSide(LeftSide(text))
              => result[2].rule_type.start = Some(Midnight(LeftSide(text)[1].n))
         /\ IsDateSide(RightSide(text))
              => result[2].rule_type.end = Some(LastSecond(RightSide(text)[1].n))

\* the text is "D ~ D" for one date D, and its leaf was evaluated
SameDayEvaluated ==
    /\ eval_result # None
    /\ GoodText(expr[1].time)
    /\ IsDateSide(LeftSide(expr[1].time))
    /\ LeftSide(expr[1].time) = RightSide(expr[1].time)

\* C21 as stated: a time text that is not "<start> ~ <end>" with good sides is
\* an error, an empty side is an absent bound, a start date is its 00:00:00
\* and an end date its 23:59:59, and the leaf of "D ~ D" matches every
\* timestamp within day D and none outside it.
C21_SameDayMatchesWholeDay ==
    parsed # None =>
        /\ TimeLeafAsSpecified(expr[1].time, parsed[1])
        /\ SameDayEvaluated =>
              LET d == LeftSide(expr[1].time)[1].n
                  p == eval_item[1].published_at
              IN  eval_result[1] = (p # None /\ Midnight(d) <= p[1] /\ p[1] < NextMidnight(d))

\* C21: as above, but the leaf of "D ~ D" matches the timestamps from
\* 00:00:00 to 23:59:59 of D inclusive and no other: not one before D, and not
\* one later than 23:59:59, in the last second of D or after it.
C21_SameDayMatchesToLastSecond ==
    parsed # None =>
        /\ TimeLeafAsSpecified(expr[1].time, parsed[1])
        /\ SameDayEvaluated =>
              LET d == LeftSide(expr[1].time)[1].n
                  p == eval_item[1].published_at
              IN  eval_result[1] = (p # None /\ Midnight(d) <= p[1] /\ p[1] <= LastSecond(d))

C21_Witness ==
    /\ SameDayEvaluated
    /\ expr[1].time # <<DateTok(0), Sep, DateTok(0)>>
    /\ eval_item[1].published_at = Some(LastSecond(LeftSide(expr[1].time)[1].n))
    /\ eval_result = Some(TRUE)

\* C22: after runs that each add one rule and save, the rule file holds every
\* rule the runs added, in the order added, the newest last.
C22_RulesAccumulateAcrossRuns ==
    added # <<>> =>
        /\ rule_file # None
        /\ IsOk(from_str(rule_file[1]))
        /\ from_str(rule_file[1])[2].rules = added

\* C23: when get_feeds returned the feeds, update_feeds calls update_feed for
\* each of them once, in the order returned, whether or not an earlier call
\* failed: a call fails exactly when its feed's fetch does, a later feed whose
\* entries are all in the store gets its timestamp updated, and update_feeds
\* returns success.
C23_UpdateFeedsContinuesAfterFailure ==
    (op = "update_feeds" /\ IsOk(fetched[1].feeds)) =>
        /\ ret = Some(OkUnit)
        /\ Len(attempts) = Len(feed_table)
        /\ \A i \in 1..Len(attempts) :
              /\ attempts[i].feed_id = feed_table[i]
              /\ IsOk(attempts[i].ret) <=> IsOk(fetched[1].fetch[feed_table[i]])
              /\ fetched[1].fetch[feed_table[i]] = Ok(<<>>) => attempts[i].stamped

C23_Witness ==
    /\ op = "update_feeds"
    /\ IsOk(fetched[1].feeds)
    /\ Len(attempts) = 2
    /\ ~IsOk(attempts[1].ret)
    /\ IsOk(attempts[2].ret)
    /\ attempts[2].stamped

====
